---- MODULE Spec2Model ----
(***************************************************************************)
(* A model of indra/belief/sklearn/wrapper.py: the adapter SklearnBase,    *)
(* its concrete subclass CountsModel, and the statement-to-matrix encoding *)
(* CountsModel.stmts_to_matrix.                                            *)
(*                                                                         *)
(* A statement is a record [type, evidence]; an evidence item is a record  *)
(* [source_api].  A numpy array is a record [kind, shape, data] with data  *)
(* the sequence of its rows.  numpy stores the cells as floats; the values *)
(* are small non-negative whole numbers, modelled as integers.             *)
(* An optional value (None / a value, no exception / an exception) is a    *)
(* sequence of length 0 or 1.                                              *)
(***************************************************************************)
EXTENDS Integers, Sequences, FiniteSets

VARIABLES self, stmts, y_arr, estimator, last

vars == <<self, stmts, y_arr, estimator, last>>

\* ------------------------------------------------------------------ bounds

\* Longest statement list handed to one call.
MaxStmts == 2

\* Most evidence items carried by the statements of one call, all together.
MaxEv == 2

\* ------------------------------------------------------------ input domains

\* evidence.source_api values that occur in statement data.
Sources == {"reach", "sparser"}

\* Classes of the objects in a statement list.  "Statement" is the root
\* class, which is not among its own descendants.
StmtClasses == {"TypeA", "TypeB", "Statement"}

\* The labels are opaque to the adapter: it reads only len(y_arr).
Labels == {0, 1}

RECURSIVE SeqsUpTo(_, _)
SeqsUpTo(S, n) ==
    IF n = 0 THEN {<<>>}
    ELSE LET shorter == SeqsUpTo(S, n - 1)
         IN  shorter \cup {Append(s, x) : s \in {t \in shorter : Len(t) = n - 1}, x \in S}

Range(s) == {s[i] : i \in 1..Len(s)}

RECURSIVE SumSeq(_)
SumSeq(s) == IF s = <<>> THEN 0 ELSE s[1] + SumSeq(Tail(s))

EvidenceItems == [source_api : Sources]

StatementRecords ==
    [type : StmtClasses, evidence : SeqsUpTo(EvidenceItems, MaxEv)]

NumEvidence(ss) == SumSeq([i \in 1..Len(ss) |-> Len(ss[i].evidence)])

StmtLists ==
    {ss \in SeqsUpTo(StatementRecords, MaxStmts) : NumEvidence(ss) <= MaxEv}

\* The label array of length n: 1, 0, 1, ...
LabelArray(n) == [i \in 1..n |-> i % 2]

LabelArrays == {LabelArray(n) : n \in 0..MaxStmts}

\* The source_list arguments: any list of sources, an entry repeated or
\* not, of up to as many entries as there are sources.
SourceLists == SeqsUpTo(Sources, Cardinality(Sources))

\* ------------------------------------------------------ values and outcomes

None == <<>>
Some(v) == <<v>>

\* A raised exception of class exc with message msg.
Exception(exc, msg) == [exc |-> exc, msg |-> msg]

\* The outcome of a call on the object obj: the exception it raised or the
\* value it returned, the calls it made on the way, in order, and the object
\* as the call leaves it.
Raise(obj, e, evs) ==
    [self |-> obj, raised |-> Some(e), ret |-> None, events |-> evs]

Return(obj, v, evs) ==
    [self |-> obj, raised |-> None, ret |-> Some(v), events |-> evs]

ndarray(nrows, ncols, rows) ==
    [kind |-> "ndarray", shape |-> <<nrows, ncols>>, data |-> rows]

\* An event: a call the adapter made, with the matrix and labels it passed.
Event(call, x, y) == [call |-> call, x_arr |-> x, y_arr |-> y]

\* ------------------------------------------------------------- construction

\* indra.statements.get_all_descendants(Statement): the statement classes
\* below the root class, in enumeration order.
get_all_descendants == <<"TypeA", "TypeB">>

\* {t: ix for ix, t in enumerate(all_stmt_types)}: a class listed more than
\* once keeps the index of its last occurrence.
stmt_type_map_of(all_stmt_types) ==
    [t \in Range(all_stmt_types) |->
        (CHOOSE ix \in 1..Len(all_stmt_types) :
            /\ all_stmt_types[ix] = t
            /\ \A k \in (ix + 1)..Len(all_stmt_types) : all_stmt_types[k] # t) - 1]

SklearnBase__init__(m) == [class |-> "SklearnBase", model |-> m]

\* The attribute stmt_type_map is set only when use_stmt_type is; it is read
\* only then, and the empty dictionary stands for its absence.
CountsModel__init__(m, source_list, use_stmt_type, use_num_members) ==
    [class           |-> "CountsModel",
     model           |-> m,
     use_stmt_type   |-> use_stmt_type,
     use_num_members |-> use_num_members,
     source_list     |-> source_list,
     stmt_type_map   |-> IF use_stmt_type
                         THEN stmt_type_map_of(get_all_descendants)
                         ELSE <<>>]

\* ------------------------------------------------ CountsModel.stmts_to_matrix

\* stmt_sources: every source_api of every evidence of every statement.
stmt_sources_of(ss) ==
    UNION {{ss[i].evidence[k].source_api : k \in 1..Len(ss[i].evidence)} :
              i \in 1..Len(ss)}

\* The statements whose class the type map lacks: the lookup at each raises
\* KeyError, and the loop stops at the first.
KeyErrorAt(obj, ss) ==
    {i \in 1..Len(ss) : ss[i].type \notin DOMAIN obj.stmt_type_map}

\* As cat_features_of, with the member-count feature the use_num_members
\* flag announces (two members for every statement of the model).
cat_features_with_members(obj, ss) ==
    [i \in 1..(IF obj.use_stmt_type \/ obj.use_num_members THEN Len(ss) ELSE 0) |->
        (IF obj.use_stmt_type THEN <<obj.stmt_type_map[ss[i].type]>> ELSE <<>>)
        \o (IF obj.use_num_members THEN <<2>> ELSE <<>>)]

\* cat_features: one feature row per statement, holding its type index, or
\* no row at all when no categorical feature is in use.
cat_features_of(obj, ss) ==
    IF obj.use_stmt_type
    THEN [i \in 1..Len(ss) |-> <<obj.stmt_type_map[ss[i].type]>>]
    ELSE <<>>

\* As Counter, counting each distinct source once: Counter(set(sources)).
Counter_distinct(sources) == [s \in Range(sources) |-> 1]

\* collections.Counter(sources)
Counter(sources) ==
    [s \in Range(sources) |-> Cardinality({k \in 1..Len(sources) : sources[k] = s})]

\* dict.get(key, default)
get(d, key, default) == IF key \in DOMAIN d THEN d[key] ELSE default

\* As source_counts, with a column only for the vocabulary entries that
\* occur in the statement data.
source_counts_seen(obj, ss) ==
    LET seen == SelectSeq(obj.source_list, LAMBDA s : s \in stmt_sources_of(ss))
        sources(i) == [k \in 1..Len(ss[i].evidence) |-> ss[i].evidence[k].source_api]
    IN  ndarray(Len(ss), Len(seen),
                [i \in 1..Len(ss) |->
                    [j \in 1..Len(seen) |->
                        Cardinality({k \in 1..Len(sources(i)) : sources(i)[k] = seen[j]})]])

\* The count block: x_arr[stmt_ix, src_ix] = src_ctr.get(src, 0).
source_counts(obj, ss) ==
    LET num_cols == Len(obj.source_list)
        num_rows == Len(ss)
        sources(i) == [k \in 1..Len(ss[i].evidence) |-> ss[i].evidence[k].source_api]
    IN  ndarray(num_rows, num_cols,
                [i \in 1..num_rows |->
                    [j \in 1..num_cols |->
                        get(Counter(sources(i)), obj.source_list[j], 0)]])

\* np.array(cat_features) for a non-empty list of one-element rows.
np_array(rows) == ndarray(Len(rows), Len(rows[1]), rows)

\* As hstack, with the operands swapped: np.hstack((b, a)).
hstack_prepend(a, b) ==
    ndarray(a.shape[1], a.shape[2] + b.shape[2],
            [i \in 1..a.shape[1] |-> b.data[i] \o a.data[i]])

\* np.hstack((a, b)) of two 2-D arrays with the same number of rows.
hstack(a, b) ==
    ndarray(a.shape[1], a.shape[2] + b.shape[2],
            [i \in 1..a.shape[1] |-> a.data[i] \o b.data[i]])

\* As CountsModel_stmts_to_matrix, without the check of the sources against
\* source_list: a source outside the vocabulary is dropped silently.
CountsModel_stmts_to_matrix_nocheck(obj, ss) ==
    IF obj.use_stmt_type /\ KeyErrorAt(obj, ss) # {}
    THEN LET i == CHOOSE i \in KeyErrorAt(obj, ss) :
                      \A k \in KeyErrorAt(obj, ss) : i <= k
         IN  Raise(obj, Exception("KeyError", ss[i].type), <<>>)
    ELSE LET x_arr == source_counts(obj, ss)
             cat_features == cat_features_of(obj, ss)
         IN  IF cat_features # <<>>
             THEN Return(obj, hstack(x_arr, np_array(cat_features)), <<>>)
             ELSE Return(obj, x_arr, <<>>)

RECURSIVE SetToSeq(_)
SetToSeq(S) ==
    IF S = {} THEN <<>>
    ELSE LET x == CHOOSE x \in S : TRUE IN <<x>> \o SetToSeq(S \ {x})

\* As CountsModel_stmts_to_matrix, extending self.source_list by the sources
\* it lacks instead of raising.
CountsModel_stmts_to_matrix_extend(obj, ss) ==
    LET grown == [obj EXCEPT !.source_list =
                      @ \o SetToSeq(stmt_sources_of(ss) \ Range(@))]
    IN  IF obj.use_stmt_type /\ KeyErrorAt(obj, ss) # {}
        THEN LET i == CHOOSE i \in KeyErrorAt(obj, ss) :
                          \A k \in KeyErrorAt(obj, ss) : i <= k
             IN  Raise(obj, Exception("KeyError", ss[i].type), <<>>)
        ELSE LET x_arr == source_counts(grown, ss)
                 cat_features == cat_features_of(grown, ss)
             IN  IF cat_features # <<>>
                 THEN Return(grown, hstack(x_arr, np_array(cat_features)), <<>>)
                 ELSE Return(grown, x_arr, <<>>)

CountsModel_stmts_to_matrix(obj, ss) ==
    IF obj.use_stmt_type /\ KeyErrorAt(obj, ss) # {}
    THEN LET i == CHOOSE i \in KeyErrorAt(obj, ss) :
                      \A k \in KeyErrorAt(obj, ss) : i <= k
         IN  Raise(obj, Exception("KeyError", ss[i].type), <<>>)
    ELSE IF stmt_sources_of(ss) \ Range(obj.source_list) # {}
    THEN Raise(obj,
               Exception("ValueError",
                         "source_list must include all source_apisin the statement data."),
               <<>>)
    ELSE LET x_arr == source_counts(obj, ss)
             cat_features == cat_features_of(obj, ss)
         IN  IF cat_features # <<>>
             THEN Return(obj, hstack(x_arr, np_array(cat_features)), <<>>)
             ELSE Return(obj, x_arr, <<>>)

\* ------------------------------------------------- SklearnBase and dispatch

\* SklearnBase.stmts_to_matrix(self, stmts, y_arr, *args, **kwargs) returns
\* (does not raise) an exception object.
SklearnBase_stmts_to_matrix(obj, ss, y) ==
    Return(obj, [kind |-> "NotImplementedError",
                 msg |-> "Need to implement the stmts_to_matrix method"], <<>>)

\* The call self.stmts_to_matrix(...) with nargs positional arguments,
\* (stmts) or (stmts, y_arr): the method of the object's class is bound
\* to them, and a call that does not fit its signature raises TypeError.
stmts_to_matrix(obj, ss, y, nargs) ==
    IF obj.class = "CountsModel"
    THEN IF nargs = 1
         THEN CountsModel_stmts_to_matrix(obj, ss)
         ELSE Raise(obj, Exception("TypeError",
                                   "CountsModel.stmts_to_matrix() takes 2 positional arguments but 3 were given"),
                    <<>>)
    ELSE IF nargs = 1
         THEN Raise(obj, Exception("TypeError",
                                   "SklearnBase.stmts_to_matrix() missing 1 required positional argument: 'y_arr'"),
                    <<>>)
         ELSE SklearnBase_stmts_to_matrix(obj, ss, y)

\* The wrapped estimator is opaque: fit(X, y) leaves it trained on (X, y) and
\* predict_proba(X) returns a matrix of probabilities for X.
model_fit(est, x, y) == [fitted_on |-> Some([x_arr |-> x, y_arr |-> y])]

model_predict_proba(est, x) == [kind |-> "proba", x_arr |-> x]

ValueError_dim == Exception("ValueError", "Number of stmts must match length of y_arr.")

\* As fit, with the length check made after the encoding.
fit_check_late(obj, ss, y) ==
    LET r == stmts_to_matrix(obj, ss, y, 1)
        called == <<Event("self.stmts_to_matrix", None, None)>>
    IN  IF r.raised # None
        THEN Raise(r.self, r.raised[1], called)
        ELSE IF Len(ss) # Len(y)
        THEN Raise(r.self, ValueError_dim, called)
        ELSE Return(r.self, [kind |-> "object", ref |-> "self"],
                    Append(called, Event("self.model.fit", r.ret, Some(y))))

\* As fit, returning what the estimator's fit returns (the estimator).
fit_returns_model(obj, ss, y) ==
    IF Len(ss) # Len(y)
    THEN Raise(obj, ValueError_dim, <<>>)
    ELSE LET r == stmts_to_matrix(obj, ss, y, 1)
             called == <<Event("self.stmts_to_matrix", None, None)>>
         IN  IF r.raised # None
             THEN Raise(r.self, r.raised[1], called)
             ELSE Return(r.self, [kind |-> "object", ref |-> "self.model"],
                         Append(called, Event("self.model.fit", r.ret, Some(y))))

fit(obj, ss, y) ==
    IF Len(ss) # Len(y)
    THEN Raise(obj, ValueError_dim, <<>>)
    ELSE LET r == stmts_to_matrix(obj, ss, y, 1)
             called == <<Event("self.stmts_to_matrix", None, None)>>
         IN  IF r.raised # None
             THEN Raise(r.self, r.raised[1], called)
             ELSE Return(r.self, [kind |-> "object", ref |-> "self"],
                         Append(called, Event("self.model.fit", r.ret, Some(y))))

\* As predict_proba, answering a failed encoding with the estimator's
\* prediction for an empty matrix.
predict_proba_partial(obj, est, ss) ==
    LET r == stmts_to_matrix(obj, ss, <<>>, 1)
        called == <<Event("self.stmts_to_matrix", None, None)>>
        x == IF r.raised # None THEN Some(ndarray(0, 0, <<>>)) ELSE r.ret
    IN  Return(r.self, model_predict_proba(est, x[1]),
               Append(called, Event("self.model.predict_proba", x, None)))

predict_proba(obj, est, ss) ==
    LET r == stmts_to_matrix(obj, ss, <<>>, 1)
        called == <<Event("self.stmts_to_matrix", None, None)>>
    IN  IF r.raised # None
        THEN Raise(r.self, r.raised[1], called)
        ELSE Return(r.self, model_predict_proba(est, r.ret[1]),
                    Append(called, Event("self.model.predict_proba", r.ret, None)))

\* ------------------------------------------------------------ state machine
\* self      the adapter object
\* stmts     the caller's statement list, y_arr the caller's label array
\* estimator the state of the wrapped estimator self.model refers to
\* last      the latest call on the adapter and its outcome

Adapters ==
    {SklearnBase__init__("clf")}
    \cup {CountsModel__init__("clf", sl, t, n) :
             sl \in SourceLists, t \in BOOLEAN, n \in BOOLEAN}

NoCall == [op |-> "none", nargs |-> 0, raised |-> None, ret |-> None, events |-> <<>>]

Init ==
    /\ self \in Adapters
    /\ stmts \in StmtLists
    /\ y_arr \in LabelArrays
    /\ estimator = [fitted_on |-> None]
    /\ last = NoCall

\* The estimator after the calls a method made on it.
RECURSIVE estimator_after(_, _)
estimator_after(est, evs) ==
    IF evs = <<>> THEN est
    ELSE estimator_after(
             IF evs[1].call = "self.model.fit"
             THEN model_fit(est, evs[1].x_arr[1], evs[1].y_arr[1])
             ELSE est,
             Tail(evs))

Completed(op, nargs, r) ==
    /\ self' = r.self
    /\ estimator' = estimator_after(estimator, r.events)
    /\ last' = [op |-> op, nargs |-> nargs, raised |-> r.raised,
                ret |-> r.ret, events |-> r.events]
    /\ UNCHANGED <<stmts, y_arr>>

Fit == Completed("fit", 2, fit(self, stmts, y_arr))

PredictProba == Completed("predict_proba", 1, predict_proba(self, estimator, stmts))

StmtsToMatrix ==
    \E nargs \in {1, 2} :
        Completed("stmts_to_matrix", nargs, stmts_to_matrix(self, stmts, y_arr, nargs))

Next == Fit \/ PredictProba \/ StmtsToMatrix

Spec == Init /\ [][Next]_vars

\* ------------------------------------------------ what the claims speak of

IsCountsModel == self.class = "CountsModel"

\* Every source_api of the statement data is a member of source_list.
InVocabulary ==
    \A i \in 1..Len(stmts) : \A k \in 1..Len(stmts[i].evidence) :
        \E j \in 1..Len(self.source_list) :
            self.source_list[j] = stmts[i].evidence[k].source_api

\* Every statement's category is a key of the type vocabulary.
KnownCategories ==
    \A i \in 1..Len(stmts) : \E j \in 1..Len(get_all_descendants) :
        get_all_descendants[j] = stmts[i].type

\* The encoding of stmts fails: a source outside the vocabulary, or an
\* unknown category with use_stmt_type enabled.
EncodingFails ==
    ~InVocabulary \/ (self.use_stmt_type /\ ~KnownCategories)

\* The latest call was self.stmts_to_matrix(stmts) on a CountsModel.
EncodedDirectly ==
    IsCountsModel /\ last.op = "stmts_to_matrix" /\ last.nargs = 1

ReturnedMatrix ==
    last.raised = None /\ Len(last.ret) = 1 /\ last.ret[1].kind = "ndarray"

\* The calls the latest call made on the wrapped estimator, in order.
ModelEvents ==
    SelectSeq(last.events,
              LAMBDA e : e.call \in {"self.model.fit", "self.model.predict_proba"})

\* The matrices the latest call on a CountsModel encoded: the one
\* stmts_to_matrix returned, the ones fit and predict_proba forwarded.
EncodedMatrices ==
    IF ~IsCountsModel THEN {}
    ELSE (IF EncodedDirectly /\ ReturnedMatrix THEN {last.ret[1]} ELSE {})
         \cup {ModelEvents[k].x_arr[1] : k \in 1..Len(ModelEvents)}

\* The number of evidence items of statement i that name the source src.
NumFrom(i, src) ==
    Cardinality({k \in 1..Len(stmts[i].evidence) :
                    stmts[i].evidence[k].source_api = src})

\* The index of a category in the type vocabulary, counted from zero.
TypeIndex(t) ==
    (CHOOSE j \in 1..Len(get_all_descendants) :
        /\ get_all_descendants[j] = t
        /\ \A k \in (j + 1)..Len(get_all_descendants) :
              get_all_descendants[k] # t) - 1

\* The row of statement i: its count per vocabulary entry, in vocabulary
\* order, then its type index when use_stmt_type is enabled.
ExpectedRow(i) ==
    [j \in 1..Len(self.source_list) |-> NumFrom(i, self.source_list[j])]
    \o (IF self.use_stmt_type THEN <<TypeIndex(stmts[i].type)>> ELSE <<>>)

ExpectedMatrix ==
    ndarray(Len(stmts),
            Len(self.source_list)
              + (IF self.use_stmt_type /\ stmts # <<>> THEN 1 ELSE 0),
            [i \in 1..Len(stmts) |-> ExpectedRow(i)])

WellShaped(m) ==
    /\ Len(m.data) = m.shape[1]
    /\ \A i \in 1..Len(m.data) : Len(m.data[i]) = m.shape[2]

ValueError_sources ==
    Exception("ValueError",
              "source_list must include all source_apisin the statement data.")

\* --------------------------------------------------------------------- C1

\* C1, as stated: for every statement list (the empty one included) whose
\* sources are all in source_list, stmts_to_matrix returns a matrix with
\* len(stmts) rows and len(source_list) columns, one more when use_stmt_type
\* is enabled.
C1_AsStated ==
    (EncodedDirectly /\ InVocabulary) =>
        /\ ReturnedMatrix
        /\ last.ret[1].shape =
              <<Len(stmts),
                Len(self.source_list) + (IF self.use_stmt_type THEN 1 ELSE 0)>>

\* C1, amended: for every statement list whose sources are all in
\* source_list and, when use_stmt_type is enabled, whose categories are all
\* in the type vocabulary, stmts_to_matrix returns a matrix with len(stmts)
\* rows and len(source_list) columns, one more when use_stmt_type is enabled
\* and the list is not empty.
C1_Shape ==
    (EncodedDirectly /\ InVocabulary /\ (self.use_stmt_type => KnownCategories)) =>
        /\ ReturnedMatrix
        /\ WellShaped(last.ret[1])
        /\ last.ret[1].shape =
              <<Len(stmts),
                Len(self.source_list)
                  + (IF self.use_stmt_type /\ stmts # <<>> THEN 1 ELSE 0)>>

C1_Witness ==
    /\ EncodedDirectly /\ InVocabulary /\ KnownCategories
    /\ self.use_stmt_type
    /\ Len(stmts) = 2 /\ Len(self.source_list) = 2
    /\ ReturnedMatrix /\ last.ret[1].shape = <<2, 3>>

\* --------------------------------------------------------------------- C2

\* C2, as stated: whenever an evidence item has a source_api outside
\* source_list, stmts_to_matrix raises the source-list ValueError and
\* returns no matrix, in every configuration.
C2_AsStated ==
    (EncodedDirectly /\ ~InVocabulary) =>
        /\ last.ret = None
        /\ last.raised = Some(ValueError_sources)

\* C2, amended: whenever an evidence item has a source_api outside
\* source_list, stmts_to_matrix returns no matrix and raises: KeyError when
\* use_stmt_type is enabled and some statement's category is missing from
\* the type vocabulary, the source-list ValueError otherwise.
C2_Raises ==
    (EncodedDirectly /\ ~InVocabulary) =>
        /\ last.ret = None
        /\ Len(last.raised) = 1
        /\ IF self.use_stmt_type /\ ~KnownCategories
           THEN last.raised[1].exc = "KeyError"
           ELSE last.raised[1] = ValueError_sources

C2_Witness ==
    /\ EncodedDirectly /\ ~InVocabulary
    /\ self.use_stmt_type /\ KnownCategories /\ Len(stmts) = 2
    /\ last.raised = Some(ValueError_sources)

\* --------------------------------------------------------------------- C3

\* C3: fit with len(stmts) # len(y_arr) raises the dimension ValueError,
\* whatever the statements hold and whatever the adapter's class, having
\* called neither stmts_to_matrix nor the estimator.
C3_DimensionMismatch ==
    (last.op = "fit" /\ Len(stmts) # Len(y_arr)) =>
        /\ last.raised = Some(ValueError_dim)
        /\ last.ret = None
        /\ last.events = <<>>

C3_Witness ==
    /\ last.op = "fit" /\ Len(stmts) # Len(y_arr)
    /\ IsCountsModel /\ self.use_stmt_type
    /\ ~InVocabulary /\ ~KnownCategories
    /\ last.raised = Some(ValueError_dim)

\* --------------------------------------------------------------------- C4

\* No entry of self.source_list is repeated.
NoRepeatedSource ==
    \A j, k \in 1..Len(self.source_list) :
        self.source_list[j] = self.source_list[k] => j = k

\* C4, as stated: in every matrix encoded, the sum of a statement's row
\* over the count columns (the first len(source_list)) is the number of its
\* evidence items.
C4_AsStated ==
    \A m \in EncodedMatrices : \A i \in 1..Len(stmts) :
        SumSeq(SubSeq(m.data[i], 1, Len(self.source_list)))
            = Len(stmts[i].evidence)

\* C4, amended: in every matrix encoded by an adapter whose source_list
\* repeats no entry, the sum of a statement's row over the count columns
\* is the number of its evidence items.
C4_RowSum ==
    \A m \in EncodedMatrices :
        NoRepeatedSource =>
            \A i \in 1..Len(stmts) :
                SumSeq(SubSeq(m.data[i], 1, Len(self.source_list)))
                    = Len(stmts[i].evidence)

C4_Witness ==
    /\ EncodedMatrices # {}
    /\ NoRepeatedSource
    /\ self.use_stmt_type
    /\ Len(self.source_list) = 2
    /\ \E i \in 1..Len(stmts) : Len(stmts[i].evidence) = 2
    /\ \E i \in 1..Len(stmts) : Len(stmts[i].evidence) = 0

\* --------------------------------------------------------------------- C5

\* C5: a fit or predict_proba on a CountsModel whose encoding fails
\* raises, having made no call on the estimator; and whenever the estimator
\* is called, it is after stmts_to_matrix, with the matrix of all the rows.
C5_NoPartialSuccess ==
    (IsCountsModel /\ last.op \in {"fit", "predict_proba"}) =>
        /\ EncodingFails =>
              /\ Len(last.raised) = 1
              /\ last.ret = None
              /\ ModelEvents = <<>>
        /\ \A k \in 1..Len(last.events) :
              last.events[k].call # "self.stmts_to_matrix" =>
                  /\ k > 1
                  /\ last.events[1].call = "self.stmts_to_matrix"
                  /\ last.events[k].x_arr[1].shape[1] = Len(stmts)
                  /\ Len(last.events[k].x_arr[1].data) = Len(stmts)

C5_Witness ==
    /\ IsCountsModel /\ last.op = "predict_proba"
    /\ Len(stmts) = 2
    /\ \E k \in 1..Len(stmts[1].evidence) :
          \A j \in 1..Len(self.source_list) :
              self.source_list[j] # stmts[1].evidence[k].source_api
    /\ \A k \in 1..Len(stmts[2].evidence) :
          \E j \in 1..Len(self.source_list) :
              self.source_list[j] = stmts[2].evidence[k].source_api
    /\ Len(last.raised) = 1
    /\ ModelEvents = <<>>

\* --------------------------------------------------------------------- C6

\* C6: fit (with as many labels as statements) or predict_proba on the
\* base adapter SklearnBase signals NotImplementedError to the caller, and
\* the estimator is never called with a value that is not a matrix.
C6_BaseNotImplemented ==
    (/\ self.class = "SklearnBase"
     /\ \/ last.op = "predict_proba"
        \/ last.op = "fit" /\ Len(stmts) = Len(y_arr)) =>
        /\ Len(last.raised) = 1
        /\ last.raised[1].exc = "NotImplementedError"
        /\ \A k \in 1..Len(ModelEvents) :
              ModelEvents[k].x_arr[1].kind = "ndarray"

\* --------------------------------------------------------------------- C7

\* C7: on a CountsModel, a fit whose length check and encoding succeed
\* calls the estimator's fit exactly once, with the encoded matrix and the
\* caller's labels, and returns the adapter; a predict_proba whose encoding
\* succeeds calls the estimator's predict_proba exactly once, with the
\* encoded matrix, calls no fit, and returns the estimator's result.
C7_Forwarding ==
    (IsCountsModel /\ ~EncodingFails) =>
        /\ (last.op = "fit" /\ Len(stmts) = Len(y_arr)) =>
              /\ ModelEvents =
                    <<Event("self.model.fit", Some(ExpectedMatrix), Some(y_arr))>>
              /\ last.raised = None
              /\ last.ret = Some([kind |-> "object", ref |-> "self"])
              /\ estimator.fitted_on =
                    Some([x_arr |-> ExpectedMatrix, y_arr |-> y_arr])
        /\ last.op = "predict_proba" =>
              /\ ModelEvents =
                    <<Event("self.model.predict_proba", Some(ExpectedMatrix), None)>>
              /\ last.raised = None
              /\ last.ret = Some(model_predict_proba(estimator, ExpectedMatrix))

C7_Witness ==
    /\ IsCountsModel /\ ~EncodingFails
    /\ last.op = "predict_proba"
    /\ Len(stmts) = 2
    /\ estimator.fitted_on # None
    /\ Len(ModelEvents) = 1

\* --------------------------------------------------------------------- C8

\* C8: stmts_to_matrix has the same outcome (the same matrix, or the same
\* error) on a CountsModel built with use_num_members set the other way.
C8_NumMembersNoOp ==
    EncodedDirectly =>
        LET flipped == CountsModel__init__(self.model, self.source_list,
                                           self.use_stmt_type,
                                           ~self.use_num_members)
            other == stmts_to_matrix(flipped, stmts, y_arr, 1)
        IN  /\ other.raised = last.raised
            /\ other.ret = last.ret

C8_Witness ==
    /\ EncodedDirectly /\ self.use_num_members
    /\ ReturnedMatrix /\ Len(stmts) = 2

\* --------------------------------------------------------------------- C9

\* The vocabularies that hold the entries of self.source_list in another
\* order, each with the column of self.source_list its columns came from.
Reordered ==
    {sl \in SourceLists :
        /\ Len(sl) = Len(self.source_list)
        /\ \A src \in Sources :
              Cardinality({j \in 1..Len(sl) : sl[j] = src})
                = Cardinality({j \in 1..Len(sl) : self.source_list[j] = src})}

ColumnOf(src) ==
    CHOOSE j \in 1..Len(self.source_list) : self.source_list[j] = src

\* C9: in every matrix encoded, row i is the row of the i-th statement:
\* cell (i, j) is the number of its evidence items from source_list[j],
\* and with use_stmt_type enabled the one further cell, the last, is the
\* index of its category; with the vocabulary reordered, the count columns
\* are reordered alike.
C9_Cells ==
    /\ \A m \in EncodedMatrices :
          /\ Len(m.data) = Len(stmts)
          /\ \A i \in 1..Len(stmts) : m.data[i] = ExpectedRow(i)
    /\ (EncodedDirectly /\ ReturnedMatrix) =>
          \A sl \in Reordered :
              LET other == stmts_to_matrix([self EXCEPT !.source_list = sl],
                                           stmts, y_arr, 1)
              IN  /\ other.raised = None
                  /\ \A i \in 1..Len(stmts) : \A j \in 1..Len(sl) :
                        other.ret[1].data[i][j]
                            = last.ret[1].data[i][ColumnOf(sl[j])]

C9_Witness ==
    /\ EncodedDirectly /\ ReturnedMatrix
    /\ self.use_stmt_type
    /\ Len(stmts) = 2
    /\ last.ret[1].data[1] = <<2, 0, 1>>
    /\ last.ret[1].data[2] = <<0, 0, 0>>
    /\ Cardinality(Reordered) = 2

\* -------------------------------------------------------------------- C10

\* The estimator was fitted on the matrix the latest call encoded.
SameMatrixAsFitted ==
    \A m \in EncodedMatrices :
        estimator.fitted_on # None => estimator.fitted_on[1].x_arr = m

\* C10: no call, successful or failing, changes the adapter's
\* configuration or the caller's statements and labels, and the matrix
\* encoded for the statements is the same whatever calls came before.
C10_Frame ==
    [][/\ self' = self
       /\ stmts' = stmts
       /\ y_arr' = y_arr
       /\ SameMatrixAsFitted']_vars

C10_Witness ==
    /\ IsCountsModel
    /\ estimator.fitted_on # None
    /\ last.op = "predict_proba"
    /\ Len(stmts) = 2
    /\ Len(ModelEvents) = 1
    /\ self.use_stmt_type /\ self.use_num_members

====
